---- MODULE Spec2Model ----
(***************************************************************************)
(* Real-time layer of mina-backend: the connection registry, the room      *)
(* registry and the video-call sessions of                                 *)
(* src/app/services/websocket_service.py, driven by the two WebSocket      *)
(* endpoints of src/app/routers/websocket.py and by the HTTP callers of    *)
(* src/app/routers/appointments.py.                                        *)
(*                                                                         *)
(* Every handler is computed by operators that thread a record `s` (the    *)
(* registries, the channels and what was written to them) through the      *)
(* statements of the source, in source order.  A write to a channel may    *)
(* fail: either the channel is already closed or broken, or it breaks      *)
(* during the handler (the inputs bc, bn of an action: channel bc breaks   *)
(* after bn more successful writes).                                       *)
(***************************************************************************)
EXTENDS Integers, Sequences, FiniteSets, TLC

(* ------------------------------ bounds --------------------------------- *)
\* user identities are 0 .. NumUsers-1 (0 is an integer a user id can be)
NumUsers == 3
\* WebSocket connections accepted during a run
MaxChans == 2
\* further WebSocket connections accepted by handlers that are followed through
\* their suspension points (SpecConnect, SpecJoin)
MaxPending == 1
\* video rooms created during a run
MaxRooms == 1

\* video rooms created during a run of SpecCreate
MaxSessions == 2

\* room identifiers used during a run of SpecRoom
MaxRoomIds == 2

\* a channel that breaks during a handler does so after 0 .. MaxBreakAt successful
\* writes: no handler writes more than three envelopes to one channel
\* (video_call_ended, user_left, video_call_end_result)
MaxBreakAt == 2

Users == 0 .. (NumUsers - 1)
Chans == 1 .. (MaxChans + MaxPending)
Rooms == 1 .. MaxRooms
\* Python's None, for a user id, a channel or a room
None == -1
NoChan == 0

VARIABLES
    active_connections, \* ConnectionManager.active_connections: user -> channel
    room_connections,   \* ConnectionManager.room_connections: room -> set of users
    video_rooms,        \* ConnectionManager.video_rooms: room -> room_data
    chan,               \* per WebSocket: "unused", "open", "closed", "broken"
    owner,              \* per WebSocket: user.id of the endpoint call that owns it
    loop,               \* per WebSocket: "none", "main", "video", "done", and
                        \* "connecting", "joining" for a suspended handler
    vroom,              \* per WebSocket of the video endpoint: its room_id
    next_room,          \* the number of room identifiers create_video_room has made
    appointment,        \* per created room: <<doctor_id, patient_id>> of its Appointment
    out,                \* per WebSocket: the envelopes written by the last handler
    last                \* the last handler that ran, its inputs and its result

vars == <<active_connections, room_connections, video_rooms, chan, owner, loop,
          vroom, next_room, appointment, out, last>>

(* ----------------------------- envelopes ------------------------------- *)
\* one record shape for every outbound message: its "type" and the fields of its
\* "data" that identify it (timestamps are left out)
Env(type, room, user, members, text, data) ==
    [type |-> type, room |-> room, user |-> user, members |-> members, text |-> text,
     data |-> data]

(* ------------------------ the threaded record -------------------------- *)
\* ret: the return value of the last call; exc: an exception is propagating;
\* res: the result of the operation the handler is about, kept for `last`;
\* rev: the order in which this handler's iterations over a set visit it
State(bc, bn, rev) ==
    [conn |-> active_connections, rooms |-> room_connections, video |-> video_rooms,
     chan |-> chan, out |-> [c \in Chans |-> <<>>], bc |-> bc, bn |-> bn,
     rev |-> rev, ret |-> "", exc |-> FALSE, res |-> ""]

Remove(f, k) == [x \in (DOMAIN f) \ {k} |-> f[x]]
Put(f, k, v) == [x \in (DOMAIN f) \cup {k} |-> IF x = k THEN v ELSE f[x]]

\* Style: the state a call leaves is named once and handed to the statements
\* that follow the call, written as a local operator of that state.

\* websocket.send_text: raises when the channel is not open or breaks now
ws_send_text(s, c, env) ==
    IF s.chan[c] = "open" /\ ~(s.bc = c /\ s.bn = 0)
    THEN [s EXCEPT !.out[c] = Append(@, env),
                   !.bn = IF s.bc = c THEN @ - 1 ELSE @,
                   !.ret = "sent"]
    ELSE [s EXCEPT !.chan[c] = IF @ = "open" THEN "broken" ELSE @,
                   !.ret = "raised"]

\* websocket.close: an open channel becomes closed; otherwise it raises
ws_close(s, c) ==
    [s EXCEPT !.chan[c] = IF @ = "open" THEN "closed" ELSE @]

\* disconnect deleting every room without members, also those u was not in
disconnect_collects_empty(s, u) ==
    LET rooms_to_remove == {r \in DOMAIN s.rooms : s.rooms[r] \ {u} = {}}
    IN [s EXCEPT !.conn[u] = NoChan,
                 !.rooms = [r \in (DOMAIN s.rooms) \ rooms_to_remove |-> s.rooms[r] \ {u}],
                 !.video = [r \in (DOMAIN s.video) \ rooms_to_remove |-> s.video[r]]]

\* disconnect deleting an emptied room but keeping its session record
disconnect_keeps_session(s, u) ==
    LET rooms_to_remove == {r \in DOMAIN s.rooms : s.rooms[r] = {u}}
    IN [s EXCEPT !.conn[u] = NoChan,
                 !.rooms = [r \in (DOMAIN s.rooms) \ rooms_to_remove |-> s.rooms[r] \ {u}]]

\* ConnectionManager.disconnect
disconnect(s, u) ==
    LET rooms_to_remove == {r \in DOMAIN s.rooms : s.rooms[r] = {u}}
    IN [s EXCEPT !.conn[u] = NoChan,
                 !.rooms = [r \in (DOMAIN s.rooms) \ rooms_to_remove |-> s.rooms[r] \ {u}],
                 !.video = [r \in (DOMAIN s.video) \ rooms_to_remove |-> s.video[r]]]

\* send_personal_message keeping the mapping of a user whose send failed
send_personal_message_keep(s, u, env) ==
    IF u \in Users /\ s.conn[u] # NoChan
    THEN LET sent == ws_send_text(s, s.conn[u], env)
             after(s1) == [s1 EXCEPT !.ret = IF s1.ret = "sent" THEN "True" ELSE "False"]
         IN after(sent)
    ELSE [s EXCEPT !.ret = "False"]

\* send_personal_message reporting a delivery to a user who has no mapping
send_personal_message_absent_ok(s, u, env) ==
    IF u \in Users /\ s.conn[u] # NoChan
    THEN LET sent == ws_send_text(s, s.conn[u], env)
             after(s1) == IF s1.ret = "sent"
                          THEN [s1 EXCEPT !.ret = "True"]
                          ELSE [disconnect(s1, u) EXCEPT !.ret = "False"]
         IN after(sent)
    ELSE [s EXCEPT !.ret = "True"]

\* ConnectionManager.send_personal_message; ret is "True" or "False"
send_personal_message(s, u, env) ==
    IF u \in Users /\ s.conn[u] # NoChan
    THEN LET sent == ws_send_text(s, s.conn[u], env)
             after(s1) == IF s1.ret = "sent"
                          THEN [s1 EXCEPT !.ret = "True"]
                          ELSE [disconnect(s1, u) EXCEPT !.ret = "False"]
         IN after(sent)
    ELSE [s EXCEPT !.ret = "False"]

\* the order in which `for user_id in users` visits a set: ascending or descending
RECURSIVE Iter(_, _)
Iter(S, rev) ==
    IF S = {} THEN <<>>
    ELSE LET x == IF rev THEN CHOOSE m \in S : \A y \in S : y <= m
                         ELSE CHOOSE m \in S : \A y \in S : m <= y
         IN <<x>> \o Iter(S \ {x}, rev)

\* `if exclude_user:` -- None and 0 are both false in Python
Truthy(u) == u # None /\ u # 0

\* room_sends giving up at the first failed send
RECURSIVE room_sends_abort(_, _, _, _)
room_sends_abort(s, us, env, disconnected_users) ==
    IF us = <<>> THEN [s EXCEPT !.ret = disconnected_users]
    ELSE LET sent == send_personal_message(s, Head(us), env)
             after(s1) == IF s1.ret = "True"
                          THEN room_sends_abort(s1, Tail(us), env, disconnected_users)
                          ELSE [s1 EXCEPT !.ret = disconnected_users \cup {Head(us)}]
         IN after(sent)

\* lines 92-95 of send_message_to_room: the sends, collecting disconnected_users
RECURSIVE room_sends(_, _, _, _)
room_sends(s, us, env, disconnected_users) ==
    IF us = <<>> THEN [s EXCEPT !.ret = disconnected_users]
    ELSE LET sent == send_personal_message(s, Head(us), env)
             after(s1) == room_sends(s1, Tail(us), env,
                                     IF s1.ret = "True" THEN disconnected_users
                                     ELSE disconnected_users \cup {Head(us)})
         IN after(sent)

\* ConnectionManager.send_message_to_room
send_message_to_room(s, room_id, env, exclude_user) ==
    IF room_id \notin DOMAIN s.rooms THEN s
    ELSE LET users == IF Truthy(exclude_user) THEN s.rooms[room_id] \ {exclude_user}
                      ELSE s.rooms[room_id]
             sends == room_sends(s, Iter(users, s.rev), env, {})
             after(s1) == IF room_id \in DOMAIN s1.rooms
                          THEN [s1 EXCEPT !.rooms[room_id] = @ \ s1.ret, !.ret = ""]
                          ELSE [s1 EXCEPT !.ret = ""]
         IN after(sends)

\* ConnectionManager.join_room
join_room(s, room_id, user_id) ==
    send_message_to_room(
        [s EXCEPT !.rooms = Put(s.rooms, room_id,
                      (IF room_id \in DOMAIN s.rooms THEN s.rooms[room_id] ELSE {})
                      \cup {user_id})],
        room_id, Env("user_joined", room_id, user_id, {}, "", None), user_id)

\* leave_room announcing the user whether or not it was a member
leave_room_always_announces(s, room_id, user_id) ==
    IF room_id \in DOMAIN s.rooms
    THEN LET told == send_message_to_room(
                         [s EXCEPT !.rooms[room_id] = @ \ {user_id}], room_id,
                         Env("user_left", room_id, user_id, {}, "", None), None)
             after(s2) == IF room_id \notin DOMAIN s2.rooms THEN [s2 EXCEPT !.exc = TRUE]
                          ELSE IF s2.rooms[room_id] = {}
                          THEN [s2 EXCEPT !.rooms = Remove(s2.rooms, room_id),
                                          !.video = Remove(s2.video, room_id)]
                          ELSE s2
         IN after(told)
    ELSE s

\* ConnectionManager.leave_room; line 137 raises KeyError when the broadcast's
\* failed sends have deleted the room
leave_room(s, room_id, user_id) ==
    IF room_id \in DOMAIN s.rooms /\ user_id \in s.rooms[room_id]
    THEN LET told == send_message_to_room(
                         [s EXCEPT !.rooms[room_id] = @ \ {user_id}], room_id,
                         Env("user_left", room_id, user_id, {}, "", None), None)
             after(s2) == IF room_id \notin DOMAIN s2.rooms THEN [s2 EXCEPT !.exc = TRUE]
                          ELSE IF s2.rooms[room_id] = {}
                          THEN [s2 EXCEPT !.rooms = Remove(s2.rooms, room_id),
                                          !.video = Remove(s2.video, room_id)]
                          ELSE s2
         IN after(told)
    ELSE s

\* ConnectionManager.get_room_users
get_room_users(s, room_id) ==
    IF room_id \in DOMAIN s.rooms THEN s.rooms[room_id] ELSE {}

(* -------------------------- VideoCallManager --------------------------- *)
\* `return value`: res keeps the result of the operation a handler ran
Returns(s, value) == [s EXCEPT !.ret = value, !.res = value]

\* create_video_room putting the doctor into the room it records
create_video_room_joined(s, room_id, appointment_id, doctor_id, patient_id) ==
    LET env == Env("video_call_created", room_id, None, {}, "", appointment_id)
        room_data == [appointment_id |-> appointment_id,
                      participants |-> <<doctor_id, patient_id>>,
                      status |-> "waiting", ended_by |-> None]
    IN Returns(send_personal_message(
                   send_personal_message([s EXCEPT !.video = Put(s.video, room_id, room_data),
                                                   !.rooms = Put(s.rooms, room_id, {doctor_id})],
                                         doctor_id, env),
                   patient_id, env),
               "created")

\* create_video_room notifying the doctor only
create_video_room_doctor_only(s, room_id, appointment_id, doctor_id, patient_id) ==
    LET env == Env("video_call_created", room_id, None, {}, "", appointment_id)
        room_data == [appointment_id |-> appointment_id,
                      participants |-> <<doctor_id, patient_id>>,
                      status |-> "waiting", ended_by |-> None]
    IN Returns(send_personal_message([s EXCEPT !.video = Put(s.video, room_id, room_data)],
                                     doctor_id, env),
               "created")

\* VideoCallManager.create_video_room; room_id is the fresh identifier
create_video_room(s, room_id, appointment_id, doctor_id, patient_id) ==
    LET env == Env("video_call_created", room_id, None, {}, "", appointment_id)
        room_data == [appointment_id |-> appointment_id,
                      participants |-> <<doctor_id, patient_id>>,
                      status |-> "waiting", ended_by |-> None]
    IN Returns(send_personal_message(
                   send_personal_message([s EXCEPT !.video = Put(s.video, room_id, room_data)],
                                         doctor_id, env),
                   patient_id, env),
               "created")

Participants(room_data) == {room_data.participants[1], room_data.participants[2]}

\* lines 193-208 of join_video_call.  room_data is the dict read at line 188:
\* line 196 writes to it whether or not it is still in video_rooms.
join_video_call_joined(s, room_id, user_id) ==
    LET joined == join_room(s, room_id, user_id)
        after(s1) ==
            LET s2 == IF room_id \in DOMAIN s1.video
                      THEN [s1 EXCEPT !.video[room_id].status = "active"]
                      ELSE s1
            IN Returns(send_personal_message(s2, user_id,
                           Env("joined_video_call", room_id, user_id,
                               get_room_users(s2, room_id), "active", None)),
                       "success")
    IN after(joined)

\* join_video_call up to its first suspension, a send of the user_joined
\* broadcast: the checks of lines 185-191 have passed and join_room has added
\* the user (lines 104-107)
join_video_call_joining(s, room_id, user_id) ==
    [s EXCEPT !.rooms = Put(s.rooms, room_id,
                  (IF room_id \in DOMAIN s.rooms THEN s.rooms[room_id] ELSE {})
                  \cup {user_id})]

\* join_video_call from that suspension on: the broadcast of join_room, then lines
\* 196-208; room_data is the record read at line 188, which is no longer the
\* recorded one when the record has been deleted meanwhile
join_video_call_resumed(s, room_id, user_id) ==
    LET told == send_message_to_room(s, room_id,
                    Env("user_joined", room_id, user_id, {}, "", None), user_id)
        after(s1) ==
            LET s2 == IF room_id \in DOMAIN s1.video
                      THEN [s1 EXCEPT !.video[room_id].status = "active"]
                      ELSE s1
            IN Returns(send_personal_message(s2, user_id,
                           Env("joined_video_call", room_id, user_id,
                               get_room_users(s2, room_id), "active", None)),
                       "success")
    IN after(told)

\* join_video_call without the checks of lines 185 and 190
join_video_call_any_room(s, room_id, user_id) ==
    join_video_call_joined(s, room_id, user_id)

\* join_video_call without the participants check of line 190
join_video_call_unchecked(s, room_id, user_id) ==
    IF room_id \notin DOMAIN s.video
    THEN Returns(s, "Room not found")
    ELSE join_video_call_joined(s, room_id, user_id)

\* VideoCallManager.join_video_call
join_video_call(s, room_id, user_id) ==
    IF room_id \notin DOMAIN s.video
    THEN Returns(s, "Room not found")
    ELSE IF user_id \notin Participants(s.video[room_id])
    THEN Returns(s, "Not authorized to join this call")
    ELSE join_video_call_joined(s, room_id, user_id)

\* VideoCallManager.handle_video_signal
handle_video_signal(s, room_id, user_id, signal_type, signal_data) ==
    IF room_id \notin DOMAIN s.video
    THEN Returns(s, "Room not found")
    ELSE Returns(send_message_to_room(s, room_id,
                     Env("video_signal", None, user_id, {}, signal_type, signal_data),
                     user_id),
                 "success")

\* lines 253-254 of end_video_call: an exception of leave_room ends the loop
RECURSIVE leave_each(_, _, _)
leave_each(s, room_id, us) ==
    IF us = <<>> \/ s.exc THEN s
    ELSE leave_each(leave_room(s, room_id, Head(us)), room_id, Tail(us))

\* lines 251-256 of end_video_call
end_video_call_cleanup(s, room_id) ==
    LET left == IF room_id \in DOMAIN s.rooms
                THEN leave_each(s, room_id, Iter(s.rooms[room_id], s.rev))
                ELSE s
        after(s3) == IF s3.exc THEN Returns(s3, "raised") ELSE Returns(s3, "success")
    IN after(left)

\* end_video_call cleaning the room up before it announces the end
end_video_call_leave_first(s, room_id, user_id) ==
    IF room_id \in DOMAIN s.video
    THEN LET cleaned == end_video_call_cleanup(
                            [s EXCEPT !.video[room_id].status = "ended",
                                      !.video[room_id].ended_by = user_id], room_id)
             after(s2) == IF s2.exc THEN s2
                          ELSE Returns(send_message_to_room(s2, room_id,
                                           Env("video_call_ended", room_id, user_id,
                                               {}, "", None), None),
                                       "success")
         IN after(cleaned)
    ELSE Returns(s, "success")

\* VideoCallManager.end_video_call
end_video_call(s, room_id, user_id) ==
    IF room_id \in DOMAIN s.video
    THEN end_video_call_cleanup(
             send_message_to_room([s EXCEPT !.video[room_id].status = "ended",
                                            !.video[room_id].ended_by = user_id],
                                  room_id,
                                  Env("video_call_ended", room_id, user_id, {}, "", None),
                                  None),
             room_id)
    ELSE Returns(s, "success")

(* ------------------------------ ChatManager ---------------------------- *)
\* send_message telling the sender "delivered" whatever the delivery attempt gave
send_message_always_delivered(s, sender_id, receiver_id, message_content) ==
    LET sent == send_personal_message(s, receiver_id,
                    Env("chat_message", None, sender_id, {}, message_content, receiver_id))
        after(s1) == Returns(send_personal_message(s1, sender_id,
                                 Env("message_sent", None, sender_id, {}, "True",
                                     receiver_id)),
                             s1.ret)
    IN after(sent)

\* ChatManager.send_message: the chat envelope to the receiver, then the receipt
\* to the sender; `success` is what the first send returned
send_message(s, sender_id, receiver_id, message_content) ==
    LET sent == send_personal_message(s, receiver_id,
                    Env("chat_message", None, sender_id, {}, message_content, receiver_id))
        after(s1) == Returns(send_personal_message(s1, sender_id,
                                 Env("message_sent", None, sender_id, {}, s1.ret,
                                     receiver_id)),
                             s1.ret)
    IN after(sent)

\* ChatManager.typing_indicator
typing_indicator(s, sender_id, receiver_id, is_typing) ==
    send_personal_message(s, receiver_id,
        Env("typing_indicator", None, sender_id, {}, is_typing, None))

(* ------------------- ConnectionManager.connect, dispatch --------------- *)
\* ConnectionManager.connect for the fresh WebSocket c
connect(s, c, user_id) ==
    send_personal_message(
        [(IF s.conn[user_id] # NoChan THEN ws_close(s, s.conn[user_id]) ELSE s)
            EXCEPT !.chan[c] = "open", !.conn[user_id] = c],
        user_id, Env("connection_established", None, user_id, {}, "", None))

\* connect up to its suspension at line 35: the websocket is accepted and the
\* close of the user's registered websocket has been issued
connect_closing(s, c, user_id) ==
    [ws_close(s, s.conn[user_id]) EXCEPT !.chan[c] = "open"]

\* connect from line 39 on, after the close of line 35 has returned or raised
connect_registering(s, c, user_id) ==
    send_personal_message([s EXCEPT !.conn[user_id] = c], user_id,
                          Env("connection_established", None, user_id, {}, "", None))

\* a reply of handle_message to its user; res stays the operation's result
reply(s, user_id, type, room) ==
    send_personal_message(s, user_id, Env(type, room, None, {}, s.res, None))

\* WebSocketService.handle_message, by message type; the KeyError of
\* end_video_call and the AttributeError of message.get (line 324) for a frame
\* that is not a JSON object are caught at line 381 and answered with an "error"
\* envelope
handle_message(s, user_id, m) ==
    CASE m.type = "chat_message" ->
           send_message(s, user_id, m.data, m.text)
      [] m.type = "typing" ->
           typing_indicator(s, user_id, m.data, m.text)
      [] m.type = "ping" ->
           send_personal_message(s, user_id, Env("pong", None, None, {}, "", None))
      [] m.type = "join_video_call" ->
           reply(join_video_call(s, m.room, user_id), user_id,
                 "video_call_join_result", m.room)
      [] m.type = "video_signal" ->
           handle_video_signal(s, m.room, user_id, m.text, m.data)
      [] m.type = "end_video_call" ->
           LET ended == end_video_call(s, m.room, user_id)
               after(s1) == IF s1.exc
                            THEN reply([s1 EXCEPT !.exc = FALSE], user_id, "error", None)
                            ELSE reply(s1, user_id, "video_call_end_result", None)
           IN after(ended)
      [] m.type = "not_object" ->
           reply(Returns(s, "error"), user_id, "error", None)
      [] OTHER -> s

\* the except clauses of the read loops (lines 64-74 of websocket_endpoint,
\* 126-136 of video_call_websocket): the error is written on the socket itself,
\* and a failure of that write propagates out of the read loop
send_error(s, c) ==
    LET sent == ws_send_text(s, c, Env("error", None, None, {}, "Invalid JSON format", None))
        after(s1) == IF s1.ret = "raised" THEN [Returns(s1, "raised") EXCEPT !.exc = TRUE]
                     ELSE Returns(s1, "error")
    IN after(sent)

\* one iteration of the read loop of websocket_endpoint (lines 59-74) and, when
\* an exception leaves the loop, its finally block (line 82); exc tells the latter
main_iteration(s, c, user_id, m) ==
    LET handled == IF m.type = "invalid_json" THEN send_error(s, c)
                   ELSE handle_message(s, user_id, m)
        after(s1) == IF s1.exc THEN disconnect(s1, user_id) ELSE s1
    IN after(handled)

\* WebSocketService.send_notification
send_notification(s, user_id, notification_data) ==
    LET sent == send_personal_message(s, user_id,
                    Env("notification", None, None, {}, "", notification_data))
        after(s1) == [s1 EXCEPT !.res = s1.ret]
    IN after(sent)

\* lines 98-104 of video_call_websocket: a rejected join is answered with an
\* error on the socket itself, which is then closed
video_reject(s, c) ==
    LET sent == ws_send_text(s, c, Env("error", None, None, {}, s.res, None))
        after(s3) == IF s3.ret = "raised" THEN s3 ELSE ws_close(s3, c)
    IN after(sent)

\* lines 93-104 of video_call_websocket: connect, join, reject
video_connect(s, c, user_id, room_id) ==
    LET joined == join_video_call(connect(s, c, user_id), room_id, user_id)
        after(s2) == IF s2.res = "success" THEN s2 ELSE video_reject(s2, c)
    IN after(joined)

\* lines 142-145 of video_call_websocket: an exception of end_video_call leaves
\* the finally block before disconnect
video_cleanup(s, room_id, user_id) ==
    LET ended == end_video_call(s, room_id, user_id)
        after(s1) == IF s1.exc THEN s1 ELSE disconnect(s1, user_id)
    IN after(ended)

\* one iteration of the read loop of video_call_websocket (lines 108-136) and,
\* when an exception leaves the loop, its finally block; exc tells the latter.
\* message.get of line 114 raises for a frame that is not a JSON object
video_iteration(s, c, room_id, user_id, m) ==
    LET handled == IF m.type \in {"invalid_json", "not_object"} THEN send_error(s, c)
                   ELSE IF m.type \in {"offer", "answer", "ice-candidate"}
                   THEN handle_video_signal(s, room_id, user_id, m.type, m.data)
                   ELSE handle_message(s, user_id, m)
        after(s1) == IF s1.exc
                     THEN [video_cleanup([s1 EXCEPT !.exc = FALSE], room_id, user_id)
                              EXCEPT !.exc = TRUE, !.res = "raised"]
                     ELSE s1
    IN after(handled)

(* ------------------------------- actions ------------------------------- *)
Msg(type, room, text, data) == [type |-> type, room |-> room, text |-> text, data |-> data]

\* the video-call frames a client can send on its connection
Inbound ==
    {Msg(ty, r, "", None) : ty \in {"join_video_call", "end_video_call"}, r \in Rooms}
    \cup {Msg("video_signal", r, "offer", 1) : r \in Rooms}

\* the frames no handler can process: text that is not JSON, and JSON that is not
\* an object
ErrorInbound ==
    {Msg("invalid_json", None, "", None), Msg("not_object", None, "", None)}

\* the messaging frames a client can send on its connection
ChatInbound ==
    {Msg("chat_message", None, "hi", receiver_id) : receiver_id \in Users}
    \cup {Msg("typing", None, "True", receiver_id) : receiver_id \in Users}
    \cup {Msg("ping", None, "", None)}

\* the receiver_id of a messaging frame
Receiver(m) == IF m.type \in {"chat_message", "typing"} THEN m.data ELSE None

\* what ran last: the handler, its user, room and WebSocket, the result of its
\* operation, the user it addressed, and the members of the room and the
\* registered WebSocket of the user when it started
LastTo(op, user, room, c, res, peer) ==
    [op |-> op, user |-> user, room |-> room, chan |-> c, res |-> res, peer |-> peer,
     members |-> IF room \in DOMAIN room_connections THEN room_connections[room] ELSE {},
     conn |-> IF user \in Users THEN active_connections[user] ELSE NoChan]

Last(op, user, room, c, res) == LastTo(op, user, room, c, res, None)

\* the registries, channels and written envelopes a handler leaves behind
Commit(s) ==
    /\ active_connections' = s.conn
    /\ room_connections' = s.rooms
    /\ video_rooms' = s.video
    /\ chan' = s.chan
    /\ out' = s.out

\* the inputs of every handler: which channel breaks during it and after how many
\* writes, and the order its set iterations take
Oracle(cs, revs) ==
    {<<bc, bn, rev>> \in (cs \cup {NoChan}) \X (0 .. MaxBreakAt) \X revs :
        bc = NoChan => bn = 0}

OpenChans == {c \in Chans : chan[c] = "open"}

\* the open WebSockets registered for the users us: a handler that sends to us
\* and to nobody else can fail on no other one
Registered(us) == {active_connections[u] : u \in us \cap Users} \cap OpenChans

\* the inputs of a handler that sends only to the users us, at most n + 1 times
\* each: a break of another channel, or after more writes, is no break at all
OracleFor(us, n) ==
    {o \in Oracle(Registered(us), {FALSE}) : o[2] <= n}

FreshChan == CHOOSE c \in Chans : chan[c] = "unused" /\ \A d \in Chans : d < c => chan[d] # "unused"

Empty == [x \in {} |-> {}]

Init ==
    /\ active_connections = [u \in Users |-> NoChan]
    /\ room_connections = Empty
    /\ video_rooms = Empty
    /\ chan = [c \in Chans |-> "unused"]
    /\ owner = [c \in Chans |-> None]
    /\ loop = [c \in Chans |-> "none"]
    /\ vroom = [c \in Chans |-> None]
    /\ next_room = 0
    /\ appointment = Empty
    /\ out = [c \in Chans |-> <<>>]
    /\ last = Last("init", None, None, NoChan, "")

\* the inputs of the handler of frame m from user_id
Inputs(user_id, m) ==
    CASE m.type = "chat_message" ->
           OracleFor({user_id, m.data}, IF user_id = m.data THEN 1 ELSE 0)
      [] m.type = "typing" -> OracleFor({m.data}, 0)
      [] m.type \in {"ping", "not_object"} -> OracleFor({user_id}, 0)
      [] m.type = "end_video_call" -> Oracle(OpenChans, BOOLEAN)
      [] OTHER -> Oracle(OpenChans, {FALSE})

\* the inputs of the iteration that reads frame m on c: the write of the error on
\* the socket itself can fail on c only
FrameInputs(c, m, revs) ==
    IF m.type = "invalid_json" \/ (m.type = "not_object" /\ loop[c] = "video")
    THEN {<<NoChan, 0, FALSE>>} \cup {<<c, 0, rev>> : rev \in revs}
    ELSE Inputs(owner[c], m)

\* routers/websocket.py websocket_endpoint up to its read loop
websocket_endpoint(u) ==
    /\ \E c \in 1 .. MaxChans : chan[c] = "unused"
    /\ \E o \in {o \in Oracle({FreshChan}, {FALSE}) : o[2] = 0} :
         LET c == FreshChan
             s == connect(State(o[1], o[2], o[3]), c, u)
         IN /\ Commit(s)
            /\ owner' = [owner EXCEPT ![c] = u]
            /\ loop' = [loop EXCEPT ![c] = "main"]
            /\ last' = Last("connect", u, None, c, s.ret)
            /\ UNCHANGED <<vroom, next_room, appointment>>

\* one iteration of the read loop of websocket_endpoint: a frame arrives on c
receive_main(c, m) ==
    /\ loop[c] = "main" /\ chan[c] = "open"
    /\ \E o \in FrameInputs(c, m, {FALSE}) :
         LET s == main_iteration(State(o[1], o[2], o[3]), c, owner[c], m)
         IN /\ Commit(s)
            /\ loop' = [loop EXCEPT ![c] = IF s.exc THEN "done" ELSE @]
            /\ last' = LastTo(m.type, owner[c], m.room, c, s.res, Receiver(m))
            /\ UNCHANGED <<owner, vroom, next_room, appointment>>

\* the finally block of websocket_endpoint: the read failed, the loop is left
exit_main(c) ==
    /\ loop[c] = "main" /\ chan[c] # "open"
    /\ LET s == disconnect(State(NoChan, 0, FALSE), owner[c])
       IN /\ Commit(s)
          /\ loop' = [loop EXCEPT ![c] = "done"]
          /\ last' = Last("disconnect", owner[c], None, c, "")
          /\ UNCHANGED <<owner, vroom, next_room, appointment>>

\* routers/websocket.py video_call_websocket up to its read loop; a rejected join
\* is answered on the socket itself, which is then closed (lines 98-104)
video_call_websocket(u, room_id) ==
    /\ \E c \in 1 .. MaxChans : chan[c] = "unused"
    /\ \E o \in Oracle(OpenChans \cup {FreshChan}, {FALSE}) :
         LET c == FreshChan
             s == video_connect(State(o[1], o[2], o[3]), c, u, room_id)
         IN /\ Commit(s)
            /\ owner' = [owner EXCEPT ![c] = u]
            /\ loop' = [loop EXCEPT ![c] = IF s.res = "success" THEN "video" ELSE "done"]
            /\ vroom' = [vroom EXCEPT ![c] = room_id]
            /\ last' = Last("video_connect", u, room_id, c, s.res)
            /\ UNCHANGED <<next_room, appointment>>

\* one iteration of the read loop of video_call_websocket (lines 107-124)
receive_video(c, m) ==
    /\ loop[c] = "video" /\ chan[c] = "open"
    /\ \E o \in FrameInputs(c, m, BOOLEAN) :
         LET s == video_iteration(State(o[1], o[2], o[3]), c, vroom[c], owner[c], m)
         IN /\ Commit(s)
            /\ loop' = [loop EXCEPT ![c] = IF s.exc THEN "done" ELSE @]
            /\ last' = LastTo(m.type, owner[c],
                              IF m.type = "offer" THEN vroom[c] ELSE m.room, c, s.res,
                              Receiver(m))
            /\ UNCHANGED <<owner, vroom, next_room, appointment>>

\* the finally block of video_call_websocket (lines 142-145): an exception of
\* end_video_call leaves it before disconnect
exit_video(c) ==
    /\ loop[c] = "video" /\ chan[c] # "open"
    /\ \E o \in Oracle(OpenChans, BOOLEAN) :
         LET s == video_cleanup(State(o[1], o[2], o[3]), vroom[c], owner[c])
         IN /\ Commit(s)
            /\ loop' = [loop EXCEPT ![c] = "done"]
            /\ last' = Last("video_exit", owner[c], vroom[c], c, s.res)
            /\ UNCHANGED <<owner, vroom, next_room, appointment>>

\* the client side of an open connection goes away
peer_drop(c) ==
    /\ chan[c] = "open"
    /\ chan' = [chan EXCEPT ![c] = "broken"]
    /\ out' = [d \in Chans |-> <<>>]
    /\ last' = Last("peer_drop", owner[c], None, c, "")
    /\ UNCHANGED <<active_connections, room_connections, video_rooms, owner, loop,
                   vroom, next_room, appointment>>

\* routers/appointments.py start_video_call: create_video_room
start_video_call(appointment_id, doctor_id, patient_id) ==
    /\ \E o \in OracleFor({doctor_id, patient_id}, IF doctor_id = patient_id THEN 1 ELSE 0) :
         LET s == create_video_room(State(o[1], o[2], o[3]), next_room + 1,
                                    appointment_id, doctor_id, patient_id)
         IN /\ Commit(s)
            /\ next_room' = next_room + 1
            /\ appointment' = Put(appointment, next_room + 1, <<doctor_id, patient_id>>)
            /\ last' = Last("create", None, next_room + 1, NoChan, s.res)
            /\ UNCHANGED <<owner, loop, vroom>>

\* a room user u is a member of when the handler starts, None if there is none
RoomOf(u) ==
    IF \E r \in DOMAIN room_connections : u \in room_connections[r]
    THEN CHOOSE r \in DOMAIN room_connections : u \in room_connections[r]
    ELSE None

\* routers/appointments.py: a notification pushed to a user
push_notification(u) ==
    \E o \in OracleFor({u}, 0) :
      LET s == send_notification(State(o[1], o[2], o[3]), u, 1)
      IN /\ Commit(s)
         /\ last' = Last("notification", u, RoomOf(u), NoChan, s.res)
         /\ UNCHANGED <<owner, loop, vroom, next_room, appointment>>

\* routers/communication.py send_message: POST /communication/messages
post_message(sender_id, receiver_id) ==
    \E o \in OracleFor({sender_id, receiver_id}, IF sender_id = receiver_id THEN 1 ELSE 0) :
      LET s == send_message(State(o[1], o[2], o[3]), sender_id, receiver_id, "hi")
      IN /\ Commit(s)
         /\ last' = LastTo("chat_message", sender_id, None, NoChan, s.res, receiver_id)
         /\ UNCHANGED <<owner, loop, vroom, next_room, appointment>>

\* ConnectionManager.join_room called for user_id
room_join(room_id, user_id) ==
    \E o \in OracleFor(get_room_users(State(NoChan, 0, FALSE), room_id) \cup {user_id}, 0) :
      LET s == join_room(State(o[1], o[2], o[3]), room_id, user_id)
      IN /\ Commit(s)
         /\ last' = Last("join_room", user_id, room_id, NoChan, "")
         /\ UNCHANGED <<owner, loop, vroom, next_room, appointment>>

\* ConnectionManager.leave_room called for user_id; it may raise (line 137)
room_leave(room_id, user_id) ==
    \E o \in OracleFor(get_room_users(State(NoChan, 0, FALSE), room_id), 0) :
      LET s == leave_room(State(o[1], o[2], o[3]), room_id, user_id)
      IN /\ Commit(s)
         /\ last' = Last("leave_room", user_id, room_id, NoChan,
                         IF s.exc THEN "raised" ELSE "")
         /\ UNCHANGED <<owner, loop, vroom, next_room, appointment>>

\* ConnectionManager.disconnect called for user_id
unregister(user_id) ==
    LET s == disconnect(State(NoChan, 0, FALSE), user_id)
    IN /\ Commit(s)
       /\ last' = Last("unregister", user_id, None, NoChan, "")
       /\ UNCHANGED <<owner, loop, vroom, next_room, appointment>>

\* websocket_endpoint entering connect for a user who has a registered websocket:
\* connect is suspended in the close of that websocket (line 35)
websocket_endpoint_connecting(u) ==
    /\ \E c \in Chans : chan[c] = "unused"
    /\ active_connections[u] # NoChan
    /\ LET c == FreshChan
           s == connect_closing(State(NoChan, 0, FALSE), c, u)
       IN /\ Commit(s)
          /\ owner' = [owner EXCEPT ![c] = u]
          /\ loop' = [loop EXCEPT ![c] = "connecting"]
          /\ last' = Last("connecting", u, None, c, "")
          /\ UNCHANGED <<vroom, next_room, appointment>>

\* the suspended connect of websocket c goes on: it registers c, greets the user
\* and websocket_endpoint enters its read loop
websocket_endpoint_connected(c) ==
    /\ loop[c] = "connecting"
    /\ \E o \in {<<NoChan, 0, FALSE>>, <<c, 0, FALSE>>} :
         LET s == connect_registering(State(o[1], o[2], o[3]), c, owner[c])
         IN /\ Commit(s)
            /\ loop' = [loop EXCEPT ![c] = "main"]
            /\ last' = Last("connect", owner[c], None, c, s.ret)
            /\ UNCHANGED <<owner, vroom, next_room, appointment>>

\* video_call_websocket up to the first suspension of join_video_call, a send of
\* the user_joined broadcast: there is one when a user the broadcast is sent to
\* has a registered websocket
video_call_websocket_joining(u, room_id) ==
    /\ \E c \in Chans : chan[c] = "unused"
    /\ \E o \in {o \in Oracle({FreshChan}, {FALSE}) : o[2] = 0} :
         LET c == FreshChan
             s0 == connect(State(o[1], o[2], o[3]), c, u)
             s == join_video_call_joining(s0, room_id, u)
         IN /\ room_id \in DOMAIN s0.video
            /\ u \in Participants(s0.video[room_id])
            /\ \E v \in (IF Truthy(u) THEN s.rooms[room_id] \ {u} ELSE s.rooms[room_id]) :
                  s0.conn[v] # NoChan
            /\ Commit(s)
            /\ owner' = [owner EXCEPT ![c] = u]
            /\ loop' = [loop EXCEPT ![c] = "joining"]
            /\ vroom' = [vroom EXCEPT ![c] = room_id]
            /\ last' = Last("joining", u, room_id, c, "")
            /\ UNCHANGED <<next_room, appointment>>

\* the suspended join_video_call of websocket c goes on and returns;
\* video_call_websocket enters its read loop
video_call_websocket_joined(c) ==
    /\ loop[c] = "joining"
    /\ \E o \in Oracle(OpenChans, {FALSE}) :
         LET s == join_video_call_resumed(State(o[1], o[2], o[3]), vroom[c], owner[c])
         IN /\ Commit(s)
            /\ loop' = [loop EXCEPT ![c] = "video"]
            /\ last' = Last("video_connect", owner[c], vroom[c], c, s.res)
            /\ UNCHANGED <<owner, vroom, next_room, appointment>>

Next ==
    \/ \E u \in Users : websocket_endpoint(u)
    \/ \E c \in Chans, m \in Inbound : receive_main(c, m)
    \/ \E c \in Chans : exit_main(c)
    \/ \E u \in Users, r \in Rooms : video_call_websocket(u, r)
    \/ \E c \in Chans, m \in Inbound \cup ErrorInbound \cup {Msg("offer", None, "", 1)} :
         receive_video(c, m)
    \/ \E c \in Chans : exit_video(c)
    \/ \E c \in Chans : peer_drop(c)
    \/ \E d, p \in Users : d # p /\ next_room < MaxRooms /\ start_video_call(1, d, p)
    \/ \E u \in Users : push_notification(u)

Spec == Init /\ [][Next]_vars

\* the connections with the messaging frames and the HTTP callers of ChatManager
\* and send_notification, without the video calls
NextChat ==
    \/ \E u \in Users : websocket_endpoint(u)
    \/ \E c \in Chans, m \in ChatInbound \cup ErrorInbound : receive_main(c, m)
    \/ \E c \in Chans : exit_main(c)
    \/ \E c \in Chans : peer_drop(c)
    \/ \E u \in Users : push_notification(u)
    \/ \E a, b \in Users : post_message(a, b)

SpecChat == Init /\ [][NextChat]_vars

\* the connections, the video endpoint and start_video_call for up to MaxSessions
\* rooms, without the frames of the read loops
NextCreate ==
    \/ \E u \in Users : websocket_endpoint(u)
    \/ \E c \in Chans : exit_main(c)
    \/ \E u \in Users, r \in 1 .. MaxSessions : video_call_websocket(u, r)
    \/ \E c \in Chans : exit_video(c)
    \/ \E c \in Chans : peer_drop(c)
    \/ \E d, p \in Users : d # p /\ next_room < MaxSessions /\ start_video_call(1, d, p)

SpecCreate == Init /\ [][NextCreate]_vars

\* the room registry driven operation by operation: the connections of the main
\* endpoint with join_room, leave_room and disconnect called for any user
NextRoom ==
    \/ \E u \in Users : websocket_endpoint(u)
    \/ \E c \in Chans : exit_main(c)
    \/ \E c \in Chans : peer_drop(c)
    \/ \E r \in 1 .. MaxRoomIds, u \in Users : room_join(r, u)
    \/ \E r \in 1 .. MaxRoomIds, u \in Users : room_leave(r, u)
    \/ \E u \in Users : unregister(u)

SpecRoom == Init /\ [][NextRoom]_vars

\* the main endpoint with connect followed through its suspension in close
NextConnect ==
    \/ \E u \in Users : websocket_endpoint(u)
    \/ \E u \in Users : websocket_endpoint_connecting(u)
    \/ \E c \in Chans : websocket_endpoint_connected(c)
    \/ \E c \in Chans : exit_main(c)
    \/ \E c \in Chans : peer_drop(c)
    \/ \E u \in Users : push_notification(u)

SpecConnect == Init /\ [][NextConnect]_vars

\* the video endpoint with join_video_call followed through its suspension in the
\* user_joined broadcast
NextJoin ==
    \/ \E u \in Users, r \in Rooms : video_call_websocket(u, r)
    \/ \E u \in Users, r \in Rooms : video_call_websocket_joining(u, r)
    \/ \E c \in Chans : video_call_websocket_joined(c)
    \/ \E c \in Chans : exit_video(c)
    \/ \E c \in Chans : peer_drop(c)
    \/ \E d, p \in Users : d # p /\ next_room < MaxRooms /\ start_video_call(1, d, p)

SpecJoin == Init /\ [][NextJoin]_vars

(* ------------------------------- claims -------------------------------- *)
Members(r) == IF r \in DOMAIN room_connections THEN room_connections[r] ELSE {}
Count(q, type) == Cardinality({i \in DOMAIN q : q[i].type = type})
JoinOps == {"join_video_call", "video_connect"}
SignalOps == {"video_signal", "offer"}
EndOps == {"end_video_call", "video_exit"}
Rank(status) == CASE status = "waiting" -> 0 [] status = "active" -> 1 [] OTHER -> 2

\* C1: once connect(c1) and then connect(c2) have both completed for user u (c2
\* being the latest WebSocket of u), the registry maps u to no WebSocket but c2 and
\* to c2 while c2 is open (so that every send to u is written to c2), nothing is
\* written to c1, and c1 is no longer open.
C1_OnlyLatestAddressable ==
    \A c1, c2 \in Chans :
        (/\ c1 < c2 /\ owner[c1] # None /\ owner[c1] = owner[c2]
         /\ ~\E c3 \in Chans : c3 > c2 /\ owner[c3] = owner[c2])
        => /\ chan[c1] # "open"
           /\ out[c1] = <<>>
           /\ active_connections[owner[c2]] \in {c2, NoChan}
           /\ (chan[c2] = "open" => active_connections[owner[c2]] = c2)

\* C2: a join_video_call of an existing room by a user outside its participants
\* returns "Not authorized to join this call", writes no user_joined envelope and
\* leaves the room's session record and member set as they were.
C2_UnauthorizedJoinRejected ==
    [][(/\ last'.op \in JoinOps
        /\ last'.room \in DOMAIN video_rooms
        /\ last'.user \notin Participants(video_rooms[last'.room]))
       => /\ last'.res = "Not authorized to join this call"
          /\ \A c \in Chans : Count(out'[c], "user_joined") = 0
          /\ last'.room \in DOMAIN video_rooms'
          /\ video_rooms'[last'.room] = video_rooms[last'.room]
          /\ (last'.room \in DOMAIN room_connections') = (last'.room \in DOMAIN room_connections)
          /\ (last'.room \in DOMAIN room_connections
                => room_connections'[last'.room] = room_connections[last'.room])]_vars

\* C2 witness: an unauthorized join was rejected on a session that is waiting
C2_Witness ==
    /\ last.op \in JoinOps
    /\ last.res = "Not authorized to join this call"
    /\ last.room \in DOMAIN video_rooms
    /\ video_rooms[last.room].status = "waiting"

\* C3: the status of a recorded session never moves backward
\* (waiting < active < ended), whatever handler runs.
C3_StatusNeverBackward ==
    [][\A r \in (DOMAIN video_rooms) \cap (DOMAIN video_rooms') :
          Rank(video_rooms'[r].status) >= Rank(video_rooms[r].status)]_vars

\* C4: on a recorded session whose status is "ended", join_video_call and
\* handle_video_signal fail, leave the session record and the room's members as they
\* were and write no room event.
C4_EndedAbsorbing ==
    [][(/\ last'.op \in {"join_video_call", "video_signal"}
        /\ last'.room \in DOMAIN video_rooms
        /\ video_rooms[last'.room].status = "ended")
       => /\ last'.res # "success"
          /\ last'.room \in DOMAIN video_rooms'
          /\ video_rooms'[last'.room] = video_rooms[last'.room]
          /\ room_connections' = room_connections
          /\ \A c \in Chans : \A i \in DOMAIN out'[c] :
                out'[c][i].type \notin {"user_joined", "joined_video_call", "video_signal"}]_vars

\* the envelope of type `type` reached c before every user_left envelope did
Before(q, type) ==
    \A i \in DOMAIN q : q[i].type = "user_left" => \E j \in 1 .. (i - 1) : q[j].type = type

\* C5: when end_video_call runs on an active session, every member of the room
\* at that moment whose registered WebSocket is open and stays open gets exactly
\* one video_call_ended envelope, and no WebSocket gets a user_left envelope of that
\* call before it got video_call_ended.
C5_EndedBeforeLeft ==
    [][(/\ last'.op \in EndOps
        /\ last'.room \in DOMAIN video_rooms
        /\ video_rooms[last'.room].status = "active")
       => /\ \A m \in Members(last'.room) :
                LET c == active_connections[m]
                IN (c # NoChan /\ chan[c] = "open" /\ chan'[c] = "open")
                   => Count(out'[c], "video_call_ended") = 1
          /\ \A c \in Chans : Before(out'[c], "video_call_ended")]_vars

\* C5 witness: an end_video_call after which a member holds video_call_ended
\* followed by the user_left of the other member
C5_Witness ==
    /\ last.op = "end_video_call"
    /\ Cardinality(last.members) = 2
    /\ \E c \in Chans :
         /\ owner[c] \in last.members
         /\ Len(out[c]) >= 2
         /\ out[c][1].type = "video_call_ended"
         /\ out[c][2].type = "user_left"

\* C6: end_video_call on a recorded session that is already ended returns
\* success, writes no room event and changes neither the session record (status,
\* ended_by) nor any room's members.
C6_EndIdempotent ==
    [][(/\ last'.op \in EndOps
        /\ last'.room \in DOMAIN video_rooms
        /\ video_rooms[last'.room].status = "ended")
       => /\ last'.res = "success"
          /\ last'.room \in DOMAIN video_rooms'
          /\ video_rooms'[last'.room] = video_rooms[last'.room]
          /\ room_connections' = room_connections
          /\ \A c \in Chans : \A i \in DOMAIN out'[c] :
                out'[c][i].type \notin {"video_call_ended", "user_left"}]_vars

\* C7: in every reachable state the participants of every recorded session are
\* the doctor and patient create_video_room was given, and every member of a room
\* is one of them.
C7_MembersAuthorized ==
    /\ \A r \in DOMAIN video_rooms :
         /\ r \in DOMAIN appointment
         /\ video_rooms[r].participants = appointment[r]
    /\ \A r \in DOMAIN room_connections :
         /\ r \in DOMAIN appointment
         /\ room_connections[r] \subseteq {appointment[r][1], appointment[r][2]}

\* C7 witness: both participants of a session are members of its room
C7_Witness ==
    \E r \in DOMAIN room_connections :
        /\ r \in DOMAIN video_rooms
        /\ room_connections[r] = Participants(video_rooms[r])

\* C8: the room registry holds no room whose member set is empty.
C8_NoEmptyRoom ==
    \A r \in DOMAIN room_connections : room_connections[r] # {}

\* C9: an envelope broadcast with exclude_user = u (the user_joined of u's join,
\* the video_signal u sent) is never written to a WebSocket registered for u.
C9_ExcludedNeverReceives ==
    \A c \in Chans : \A i \in DOMAIN out[c] :
        out[c][i].type \in {"user_joined", "video_signal"} => out[c][i].user # owner[c]

\* the broadcast of `type` a handler starts with, to the users `snapshot` of room r:
\* a user whose registered WebSocket is open and stays open got it exactly once,
\* and a user who did not get it is no longer a member of r
Tolerant(r, snapshot, type) ==
    \A m \in snapshot :
        LET c == active_connections[m]
        IN /\ (c # NoChan /\ chan[c] = "open" /\ chan'[c] = "open")
                => Count(out'[c], type) = 1
           /\ (c = NoChan \/ Count(out'[c], type) = 0)
                => (r \notin DOMAIN room_connections' \/ m \notin room_connections'[r])

\* C10: in send_message_to_room a failed send to one member does not keep the
\* envelope from the other members of the snapshot (each one with a working
\* WebSocket gets it exactly once), and the members whose send failed are out of
\* the room's member set afterwards; checked on the broadcasts of
\* handle_video_signal, end_video_call and join_video_call.
C10_BroadcastTolerant ==
    [][/\ (last'.op \in SignalOps /\ last'.room \in DOMAIN video_rooms)
          => Tolerant(last'.room,
                      Members(last'.room) \ (IF Truthy(last'.user) THEN {last'.user} ELSE {}),
                      "video_signal")
       /\ (last'.op \in EndOps /\ last'.room \in DOMAIN video_rooms)
          => Tolerant(last'.room, Members(last'.room), "video_call_ended")
       /\ (last'.op = "join_video_call" /\ last'.res = "success")
          => Tolerant(last'.room,
                      (Members(last'.room) \cup {last'.user})
                         \ (IF Truthy(last'.user) THEN {last'.user} ELSE {}),
                      "user_joined")]_vars

\* C10 witness: a broadcast reached one member of a two-member room and failed for
\* the other, who was dropped from the registry
C10_Witness ==
    /\ last.op \in SignalOps \cup EndOps
    /\ \E a, b \in last.members :
         /\ a # b
         /\ active_connections[a] # NoChan
         /\ Count(out[active_connections[a]], IF last.op \in EndOps THEN "video_call_ended"
                                                ELSE "video_signal") = 1
         /\ active_connections[b] = NoChan
         /\ \E c \in Chans : owner[c] = b /\ chan[c] = "broken" /\ out[c] = <<>>

\* C11: when send_personal_message(u, env) finds a WebSocket c registered for u,
\* it either writes env to c once, returns True and keeps the mapping, or the write
\* fails, it returns False and u has no mapping afterwards; and a send to a user
\* without a mapping returns False (checked on send_notification).
C11_FailedSendUnregisters ==
    [][(last'.op = "notification")
       => LET u == last'.user
              c == active_connections[u]
          IN IF c # NoChan
             THEN \/ /\ last'.res = "True"
                     /\ Count(out'[c], "notification") = 1
                     /\ active_connections'[u] = c
                  \/ /\ last'.res = "False"
                     /\ out'[c] = <<>>
                     /\ active_connections'[u] = NoChan
             ELSE last'.res = "False"]_vars

\* C11 witness: a notification to a registered user failed on a broken WebSocket
\* and the user's mapping is gone
C11_Witness ==
    /\ last.op = "notification"
    /\ last.res = "False"
    /\ last.conn # NoChan
    /\ chan[last.conn] = "broken"
    /\ active_connections[last.user] = NoChan

\* C12: send_personal_message to a user without a registered WebSocket returns
\* False, writes to no WebSocket and leaves active_connections, room_connections
\* and video_rooms as they were (checked on send_notification).
C12_UnregisteredSendIsNoop ==
    [][(last'.op = "notification" /\ active_connections[last'.user] = NoChan)
       => /\ last'.res = "False"
          /\ \A c \in Chans : out'[c] = <<>>
          /\ active_connections' = active_connections
          /\ room_connections' = room_connections
          /\ video_rooms' = video_rooms
          /\ chan' = chan]_vars

\* C12 witness: a notification to an unregistered user while another user is
\* registered and a room has members
C12_Witness ==
    /\ last.op = "notification"
    /\ last.conn = NoChan
    /\ last.res = "False"
    /\ \E v \in Users : active_connections[v] # NoChan
    /\ \E r \in DOMAIN room_connections : room_connections[r] # {}

\* the envelopes of type `type` in q
Of(q, type) == {q[i] : i \in {j \in DOMAIN q : q[j].type = type}}

\* C13: a join_video_call that returns success for a participant of a session
\* whose status is "waiting" leaves the session recorded with status "active" and
\* the user a member of the room, and has written to the user's registered
\* WebSocket exactly one joined_video_call envelope, whose participant list is the
\* room's member set.
C13_JoinActivates ==
    [][(/\ last'.op \in JoinOps
        /\ last'.res = "success"
        /\ last'.room \in DOMAIN video_rooms
        /\ video_rooms[last'.room].status = "waiting")
       => LET r == last'.room
              u == last'.user
              c == active_connections'[u]
          IN /\ r \in DOMAIN video_rooms' /\ video_rooms'[r].status = "active"
             /\ r \in DOMAIN room_connections' /\ u \in room_connections'[r]
             /\ c # NoChan
             /\ Count(out'[c], "joined_video_call") = 1
             /\ \A e \in Of(out'[c], "joined_video_call") :
                    e.members = room_connections'[r]]_vars

\* C14: a join_video_call by a participant who is already a member of the room,
\* next to another member, returns success, leaves the member set as it was and
\* writes no user_joined envelope about the user to the other member.
C14_RejoinIdempotent ==
    [][(/\ last'.op \in JoinOps
        /\ last'.room \in DOMAIN video_rooms
        /\ last'.user \in Participants(video_rooms[last'.room])
        /\ last'.user \in Members(last'.room)
        /\ Cardinality(Members(last'.room)) = 2)
       => /\ last'.res = "success"
          /\ \A b \in Members(last'.room) \ {last'.user} :
                LET c == active_connections[b]
                IN (c # NoChan /\ chan'[c] = "open")
                   => /\ last'.room \in DOMAIN room_connections'
                      /\ room_connections'[last'.room] = room_connections[last'.room]
                      /\ Count(out'[c], "user_joined") = 0]_vars

\* C15: no handler moves the status of a recorded session forward by more than
\* one step: a session that is "waiting" is never "ended" one step later.
C15_NoSkippedStatus ==
    [][\A r \in (DOMAIN video_rooms) \cap (DOMAIN video_rooms') :
          Rank(video_rooms'[r].status) - Rank(video_rooms[r].status) <= 1]_vars

\* the room events of the call sessions
RoomEvents == {"user_joined", "user_left", "joined_video_call", "video_signal",
               "video_call_ended"}

\* a handler running `ops` for a room without a session record reports "Room not
\* found", writes no room event and, unless a write of its reply failed, leaves
\* the three registries as they were
UnknownRoomFails(ops) ==
    (last'.op \in ops /\ last'.room \notin DOMAIN video_rooms)
    => /\ last'.res = "Room not found"
       /\ \A c \in Chans : \A i \in DOMAIN out'[c] : out'[c][i].type \notin RoomEvents
       /\ video_rooms' = video_rooms
       /\ (chan' = chan => /\ room_connections' = room_connections
                           /\ active_connections' = active_connections)

\* C16: join_video_call, handle_video_signal and end_video_call for a room
\* identifier without a session record report "Room not found" to their caller,
\* write no room event and change no session, room or connection entry.
C16_UnknownRoomFails ==
    [][UnknownRoomFails(JoinOps \cup SignalOps \cup EndOps)]_vars

\* handle_video_signal from `sender` in the room last'.room: every other member
\* whose registered WebSocket is open and stays open is written exactly one
\* video_signal envelope, with the frame's signal type ("offer") and payload (1) and
\* from_user = sender; nothing is written to the sender; and when every other
\* member was written the envelope, sessions and members are as they were
Relayed(sender) ==
    LET r == last'.room
        others == Members(r) \ {sender}
    IN /\ \A m \in others :
            LET c == active_connections[m]
            IN (c # NoChan /\ chan[c] = "open" /\ chan'[c] = "open")
               => /\ Count(out'[c], "video_signal") = 1
                  /\ \A e \in Of(out'[c], "video_signal") :
                        e.user = sender /\ e.text = "offer" /\ e.data = 1
       /\ out'[last'.chan] = <<>>
       /\ active_connections[sender] # NoChan => out'[active_connections[sender]] = <<>>
       /\ (\A m \in others : /\ active_connections[m] # NoChan
                              /\ Count(out'[active_connections[m]], "video_signal") = 1)
          => video_rooms' = video_rooms /\ room_connections' = room_connections

\* C17: handle_video_signal on a recorded session relays the signal, unmodified and
\* once, to every connected member of the room but the sender, writes nothing to the
\* sender, and changes neither status nor membership when all its sends succeed.
C17_SignalRelayed ==
    [][(last'.op \in SignalOps /\ last'.room \in DOMAIN video_rooms)
       => Relayed(last'.user)]_vars

\* C18: ChatManager.send_message returns whether the chat_message envelope was
\* written to the receiver's registered WebSocket, writes that envelope nowhere
\* else, and then writes to the sender's registered WebSocket, when it is open and
\* stays open, exactly one message_sent receipt whose delivered flag is the return
\* value, after the chat envelope; a receiver without a registered WebSocket gets
\* nothing and the sender is told delivered = False.
C18_ReceiptMatchesDelivery ==
    [][(last'.op = "chat_message")
       => LET sender == last'.user
              receiver == last'.peer
              rc == active_connections[receiver]
              sc == active_connections[sender]
              delivered == rc # NoChan /\ Count(out'[rc], "chat_message") = 1
          IN /\ last'.res = (IF delivered THEN "True" ELSE "False")
             /\ \A c \in Chans \ {rc} : Count(out'[c], "chat_message") = 0
             /\ \A c \in Chans \ {sc} : Count(out'[c], "message_sent") = 0
             /\ (sc # NoChan /\ chan'[sc] = "open")
                => /\ Count(out'[sc], "message_sent") = 1
                   /\ out'[sc][Len(out'[sc])].type = "message_sent"
                   /\ out'[sc][Len(out'[sc])].text = last'.res
                   /\ out'[sc][Len(out'[sc])].data = receiver]_vars

\* C18 witness: a registered sender was told delivered = False for a receiver
\* without a registered WebSocket, and nothing else was written
C18_Witness ==
    /\ last.op = "chat_message"
    /\ last.res = "False"
    /\ last.peer # last.user
    /\ active_connections[last.peer] = NoChan
    /\ \A c \in Chans : owner[c] = last.peer => chan[c] # "broken"
    /\ last.conn # NoChan
    /\ Len(out[last.conn]) = 1
    /\ out[last.conn][1].type = "message_sent"
    /\ out[last.conn][1].text = "False"
    /\ \A c \in Chans \ {last.conn} : out[c] = <<>>

\* C19: create_video_room writes to the registered WebSocket of each of the two
\* participants, when it is open and stays open, exactly one video_call_created
\* envelope naming the new room, and writes nothing to any other WebSocket.
C19_CreatedNotifiesBoth ==
    [][(last'.op = "create")
       => LET r == last'.room
              targets == {active_connections[appointment'[r][1]],
                          active_connections[appointment'[r][2]]} \ {NoChan}
          IN /\ \A c \in targets :
                  (chan[c] = "open" /\ chan'[c] = "open")
                  => /\ Len(out'[c]) = 1
                     /\ out'[c][1].type = "video_call_created"
                     /\ out'[c][1].room = r
             /\ \A c \in Chans \ targets : out'[c] = <<>>]_vars

\* C19 witness: both participants were connected and each holds the envelope
C19_Witness ==
    /\ last.op = "create"
    /\ \E c1, c2 \in Chans :
         /\ c1 # c2
         /\ active_connections[appointment[last.room][1]] = c1
         /\ active_connections[appointment[last.room][2]] = c2
         /\ Count(out[c1], "video_call_created") = 1
         /\ Count(out[c2], "video_call_created") = 1

\* create_video_room recorded its session: under an identifier that was not in
\* video_rooms, with status "waiting" and the doctor and the patient it was given
\* as participants, and without a room entry
Recorded(r) ==
    /\ r \notin DOMAIN video_rooms
    /\ r \in DOMAIN video_rooms'
    /\ video_rooms'[r].status = "waiting"
    /\ video_rooms'[r].participants = appointment'[r]
    /\ r \notin DOMAIN room_connections'

\* the participants of r that the handler unregistered after a failed send
Dropped(r) ==
    {u \in Participants(video_rooms'[r]) :
        active_connections[u] # NoChan /\ active_connections'[u] = NoChan}

C21_JoinLeaveCollects ==
    [][(/\ last.op = "join_room" /\ last.members = {}
        /\ last'.op = "leave_room"
        /\ last'.room = last.room /\ last'.user = last.user)
       => last'.room \notin DOMAIN room_connections']_vars

\* C22: join_room(room, u) writes exactly one user_joined envelope naming u to
\* every other member of the room whose registered WebSocket is open and stays
\* open, and writes no user_joined envelope to a WebSocket registered for u.
C22_JoinNotifiesOthers ==
    [][(last'.op = "join_room")
       => LET r == last'.room
              u == last'.user
          IN /\ \A m \in Members(r) \ {u} :
                  LET c == active_connections[m]
                  IN (c # NoChan /\ chan[c] = "open" /\ chan'[c] = "open")
                     => /\ Count(out'[c], "user_joined") = 1
                        /\ \A e \in Of(out'[c], "user_joined") : e.user = u /\ e.room = r
             /\ active_connections[u] # NoChan
                => Count(out'[active_connections[u]], "user_joined") = 0]_vars

\* C23: leave_room(room, u) for a member u writes exactly one user_left envelope
\* naming u to every remaining member whose registered WebSocket is open and stays
\* open and none to u; for a user who is not a member, or a room that does not
\* exist, it writes nothing and leaves the three registries as they were.
C23_LeaveNotifiesRemaining ==
    [][(last'.op = "leave_room")
       => LET r == last'.room
              u == last'.user
          IN IF u \in Members(r)
             THEN /\ \A m \in Members(r) \ {u} :
                       LET c == active_connections[m]
                       IN (c # NoChan /\ chan[c] = "open" /\ chan'[c] = "open")
                          => /\ Count(out'[c], "user_left") = 1
                             /\ \A e \in Of(out'[c], "user_left") :
                                   e.user = u /\ e.room = r
                  /\ \A c \in Chans :
                       out'[c] # <<>> => \E m \in Members(r) \ {u} : active_connections[m] = c
                  /\ r \in DOMAIN room_connections' => u \notin room_connections'[r]
             ELSE /\ \A c \in Chans : out'[c] = <<>>
                  /\ room_connections' = room_connections
                  /\ video_rooms' = video_rooms
                  /\ active_connections' = active_connections]_vars

\* C23 witness: a member left a room of two and the other member holds user_left
C23_Witness ==
    /\ last.op = "leave_room"
    /\ Cardinality(last.members) = 2
    /\ last.user \in last.members
    /\ \E m \in last.members \ {last.user} :
         /\ active_connections[m] # NoChan
         /\ Count(out[active_connections[m]], "user_left") = 1
         /\ room_connections[last.room] = {m}

\* the three registries are left as they are
RegistriesUnchanged ==
    /\ active_connections' = active_connections
    /\ room_connections' = room_connections
    /\ video_rooms' = video_rooms

\* C27: disconnect(u) right after disconnect(u) changes nothing, and disconnect(u)
\* for a user who is neither registered nor a member of a room changes nothing.
C27_UnregisterIdempotent ==
    [][(last'.op = "unregister")
       => /\ (last.op = "unregister" /\ last.user = last'.user) => RegistriesUnchanged
          /\ (/\ active_connections[last'.user] = NoChan
              /\ \A r \in DOMAIN room_connections : last'.user \notin room_connections[r])
             => RegistriesUnchanged]_vars

\* C27 witness: disconnect ran for a user without a registration while another
\* user is registered and rooms exist, one of them without members
C27_Witness ==
    /\ last.op = "unregister"
    /\ last.conn = NoChan
    /\ \E v \in Users : active_connections[v] # NoChan
    /\ \E r \in DOMAIN room_connections : room_connections[r] # {}
    /\ \E r \in DOMAIN room_connections : room_connections[r] = {}

\* C24: a frame of the main read loop that cannot be decoded, or whose processing
\* raises, is answered with an "error" envelope on the connection it arrived on,
\* and while that connection can still be written to the loop goes on reading and
\* the user's registration stays as it was.
C24_ErrorFrameKeepsLoop ==
    [][(/\ last'.op \in {"invalid_json", "not_object"}
        /\ chan'[last'.chan] = "open")
       => /\ Count(out'[last'.chan], "error") = 1
          /\ loop'[last'.chan] = loop[last'.chan]
          /\ active_connections'[last'.user] = active_connections[last'.user]]_vars

\* the step ends the read loop of the connection it acted on
LoopEnds ==
    /\ last'.chan \in Chans
    /\ loop[last'.chan] \in {"main", "video"}
    /\ loop'[last'.chan] = "done"

\* C25: when the read loop of a connection of user u ends, u is unregistered, and
\* every room u was a member of loses u and nobody else, is deleted exactly if that
\* leaves it empty, and its remaining connected members are written user_left.
C25_TerminationLeaves ==
    [][LoopEnds
       => /\ active_connections'[last'.user] = NoChan
          /\ \A r \in DOMAIN room_connections :
                last'.user \in room_connections[r]
                => /\ Members(r)' = room_connections[r] \ {last'.user}
                   /\ (r \in DOMAIN room_connections') = (room_connections[r] # {last'.user})
                   /\ \A v \in room_connections[r] \ {last'.user} :
                         (active_connections'[v] # NoChan)
                         => Count(out'[active_connections'[v]], "user_left") >= 1]_vars

\* user v is registered on a channel that is still open after the step
Reachable(v) ==
    /\ active_connections[v] # NoChan
    /\ chan'[active_connections[v]] = "open"

\* C26: a frame that cannot be decoded or processed, and the end of the read loop
\* of a connection of user u, leave every other user that is registered on an open
\* channel registered on it and a member of every room it was a member of.
C26_OthersUnaffected ==
    [][(last'.op \in {"invalid_json", "not_object"} \/ LoopEnds)
       => \A v \in Users \ {last'.user} :
             Reachable(v)
             => /\ active_connections'[v] = active_connections[v]
                /\ \A r \in DOMAIN room_connections :
                      v \in room_connections[r] => v \in Members(r)']_vars

\* C28: when the read loop of a superseded connection c1 of user u ends while u is
\* registered on a later connection c2 that is open, the cleanup of c1 leaves u
\* registered on c2 and a member of every room u was a member of.
C28_StaleCleanupKeepsLatest ==
    [][(/\ LoopEnds
        /\ active_connections[last'.user] \notin {NoChan, last'.chan}
        /\ chan'[active_connections[last'.user]] = "open")
       => /\ active_connections'[last'.user] = active_connections[last'.user]
          /\ \A r \in DOMAIN room_connections :
                last'.user \in room_connections[r] => last'.user \in Members(r)']_vars

\* C29: leave_room and end_video_call never raise, whatever sends fail during
\* their broadcasts, and end_video_call returns success.
C29_LeaveAndEndComplete ==
    [][/\ (last'.op \in EndOps \cup {"leave_room"}) => last'.res # "raised"
       /\ (last'.op \in EndOps) => last'.res = "success"]_vars

\* C30: once the handler of the video-call endpoint has finished for a channel,
\* that channel is not the registered connection of its user.
C30_FinishedVideoChannelUnregistered ==
    \A c \in Chans :
        (loop[c] = "done" /\ vroom[c] # None) => active_connections[owner[c]] # c

\* C36: when the write of a notification to a registered user u fails, u is
\* removed from every room it was a member of, a room that leaves empty is deleted
\* together with its session record, every other room and record stays as it
\* was, and no user_left envelope is written to anybody.
C36_FailedSendLeavesSilently ==
    [][(/\ last'.op = "notification"
        /\ active_connections[last'.user] # NoChan
        /\ last'.res = "False")
       => /\ \A r \in DOMAIN room_connections :
                IF room_connections[r] = {last'.user}
                THEN r \notin DOMAIN room_connections' /\ r \notin DOMAIN video_rooms'
                ELSE /\ r \in DOMAIN room_connections'
                     /\ room_connections'[r] = room_connections[r] \ {last'.user}
                     /\ (r \in DOMAIN video_rooms)
                           => (r \in DOMAIN video_rooms' /\ video_rooms'[r] = video_rooms[r])
          /\ DOMAIN room_connections' \subseteq DOMAIN room_connections
          /\ \A c \in Chans : Count(out'[c], "user_left") = 0]_vars

\* C36 witness: the notification to a registered member of a room failed; another
\* member, connected on an open channel, remains in the room and was written
\* nothing
C36_Witness ==
    /\ last.op = "notification"
    /\ last.res = "False"
    /\ last.conn # NoChan
    /\ last.user \in last.members
    /\ last.room \in DOMAIN room_connections
    /\ room_connections[last.room] = last.members \ {last.user}
    /\ last.room \in DOMAIN video_rooms
    /\ \E v \in room_connections[last.room] :
          /\ active_connections[v] # NoChan
          /\ chan[active_connections[v]] = "open"
          /\ out[active_connections[v]] = <<>>

\* C35: every room identifier in room_connections has a record in video_rooms.
C35_RoomHasSession == DOMAIN room_connections \subseteq DOMAIN video_rooms

\* C35 witness: two sessions were created; one has its room entry and its record,
\* the room and the record of the other have been deleted
C35_Witness ==
    /\ next_room = 2
    /\ \E r1, r2 \in 1 .. MaxSessions :
          /\ r1 \in DOMAIN room_connections /\ r1 \in DOMAIN video_rooms
          /\ room_connections[r1] # {}
          /\ r2 \notin DOMAIN room_connections /\ r2 \notin DOMAIN video_rooms

\* C33: an end_video_call frame for a recorded session, sent by a user who is not
\* one of its participants, leaves the session record and the room's members as
\* they were and writes nothing to the other users.
C33_OnlyParticipantEnds ==
    [][(/\ last'.op = "end_video_call"
        /\ last'.room \in DOMAIN video_rooms
        /\ last'.user \notin Participants(video_rooms[last'.room]))
       => /\ last'.room \in DOMAIN video_rooms'
          /\ video_rooms'[last'.room] = video_rooms[last'.room]
          /\ room_connections' = room_connections
          /\ \A c \in Chans \ {last'.chan} : out'[c] = <<>>]_vars

\* C34: a signal whose sender is not a member of the room it names is written to
\* nobody.
C34_SignalNeedsMembership ==
    [][(last'.op \in SignalOps /\ last'.user \notin Members(last'.room))
       => \A c \in Chans : Count(out'[c], "video_signal") = 0]_vars

\* C31: when join_video_call returns success to a user whose websocket is open,
\* the user is a member of the room and the room's session record exists.
C31_JoinedIsMember ==
    [][(/\ last'.op = "video_connect"
        /\ last'.res = "success"
        /\ chan'[last'.chan] = "open")
       => /\ last'.room \in DOMAIN room_connections'
          /\ last'.user \in room_connections'[last'.room]
          /\ last'.room \in DOMAIN video_rooms']_vars

\* C32: when a connect of user u has completed, no connect of u is suspended and
\* no cleanup of a connection of u has run, every open websocket of u is the
\* registered one.
C32_OneOpenChannel ==
    [][(/\ last'.op = "connect"
        /\ \A c \in Chans : owner'[c] = last'.user => loop'[c] = "main")
       => \A c \in Chans :
             (owner'[c] = last'.user /\ chan'[c] = "open")
             => active_connections'[last'.user] = c]_vars
====
